---------------------------- MODULE Spec2Model ----------------------------
(***************************************************************************)
(* A model of airflow_dbt_python/hooks/dbt.py: the option enums and their  *)
(* from_str lookup, the dataclass configurations and their construction,   *)
(* ConfigFactory, BaseConfig.patch_manifest_task / create_dbt_task, and    *)
(* DbtHook.run_dbt_task.                                                   *)
(*                                                                         *)
(* Python strings are sequences of one-character strings, so that          *)
(* str.replace, str.upper, json.dumps, str(dict) and json.loads are        *)
(* computed character by character.                                        *)
(***************************************************************************)
EXTENDS Integers, Sequences, FiniteSets, TLC

VARIABLES
    command,      \* get_config_factory: the command string passed in
    factory,      \* get_config_factory: pending, the member returned, or a KeyError
    ctype,        \* construction: the configuration type instantiated
    kwargs,       \* construction: the keyword arguments, field name -> value
    config,       \* the configuration: pending, built, or the TypeError of its construction
    task,         \* the dbt task: <<>> before it is created, else <<its attributes>>
    last,         \* the operation on the task that ran last
    raised,       \* the exception the last operation raised, "none" if it returned
    bundle,       \* the compiled-artifact bundle on disk: <<>> if missing, else <<its content>>
    flags,        \* dbt's process-wide flags
    pc,           \* run_dbt_task: where each caller's invocation stands
    rconfig,      \* run_dbt_task: each invocation's configuration, <<>> before the first
    rtask,        \* run_dbt_task: the task each invocation created
    calls,        \* run_dbt_task: the collaborator calls each invocation has made
    started,      \* number of invocations of run_dbt_task begun
    overlap,      \* whether another invocation was in progress during each one
    served        \* types of the configurations whose task ran with no other invocation in progress

(***************************************************************************)
(* The variables, by the component that owns them.                         *)
(***************************************************************************)
resolveVars == <<command, factory>>

constructVars == <<ctype, kwargs>>

taskVars == <<task, last, raised, bundle>>

runVars == <<flags, pc, rconfig, rtask, calls, started, overlap, served>>

vars == <<command, factory, ctype, kwargs, config, task, last, raised, bundle,
          flags, pc, rconfig, rtask, calls, started, overlap, served>>

(***************************************************************************)
(* Bounds of the model.                                                    *)
(***************************************************************************)
\* Longest free-form command string enumerated besides the spellings of the
\* thirteen command names.
MaxLen == 2

\* Number of distinct keys of the mappings given for vars and args.
MaxKeys == 2

\* Number of node identifiers a graph and a manifest are drawn from.
MaxUids == 2

\* Number of invocations of run_dbt_task in one process.
MaxRuns == 4

(***************************************************************************)
(* Characters and strings.                                                 *)
(***************************************************************************)
LowerChars == <<"a","b","c","d","e","f","g","h","i","j","k","l","m",
                "n","o","p","q","r","s","t","u","v","w","x","y","z">>

UpperChars == <<"A","B","C","D","E","F","G","H","I","J","K","L","M",
                "N","O","P","Q","R","S","T","U","V","W","X","Y","Z">>

\* str.upper on one character: ASCII lower-case letters map to upper case,
\* everything else is unchanged.
UpperChar(c) ==
    IF \E i \in 1..26 : LowerChars[i] = c
    THEN UpperChars[CHOOSE i \in 1..26 : LowerChars[i] = c]
    ELSE c

\* str.lower on one character.
LowerChar(c) ==
    IF \E i \in 1..26 : UpperChars[i] = c
    THEN LowerChars[CHOOSE i \in 1..26 : UpperChars[i] = c]
    ELSE c

\* s.upper()
StrUpper(s) == [i \in 1..Len(s) |-> UpperChar(s[i])]

\* s.replace("-", "_")
ReplaceDash(s) == [i \in 1..Len(s) |-> IF s[i] = "-" THEN "_" ELSE s[i]]

(***************************************************************************)
(* The leaf configurations: their fixed command identifier (which) and     *)
(* task class (cls), dbt.py lines 212-347.                                 *)
(***************************************************************************)
ConfigTypes ==
    { "BuildTaskConfig", "CleanTaskConfig", "CompileTaskConfig",
      "DebugTaskConfig", "DepsTaskConfig", "ListTaskConfig",
      "ParseTaskConfig", "RunTaskConfig", "RunOperationTaskConfig",
      "SeedTaskConfig", "SnapshotTaskConfig", "SourceFreshnessTaskConfig",
      "TestTaskConfig" }

\* The default of the `which` field of each leaf configuration.
Which(t) ==
    CASE t = "BuildTaskConfig"           -> <<"b","u","i","l","d">>
      [] t = "CleanTaskConfig"           -> <<"c","l","e","a","n">>
      [] t = "CompileTaskConfig"         -> <<"c","o","m","p","i","l","e">>
      [] t = "DebugTaskConfig"           -> <<"d","e","b","u","g">>
      [] t = "DepsTaskConfig"            -> <<"d","e","p","s">>
      [] t = "ListTaskConfig"            -> <<"l","i","s","t">>
      [] t = "ParseTaskConfig"           -> <<"p","a","r","s","e">>
      [] t = "RunTaskConfig"             -> <<"r","u","n">>
      [] t = "RunOperationTaskConfig"    ->
            <<"r","u","n","-","o","p","e","r","a","t","i","o","n">>
      [] t = "SeedTaskConfig"            -> <<"s","e","e","d">>
      [] t = "SnapshotTaskConfig"        -> <<"s","n","a","p","s","h","o","t">>
      [] t = "SourceFreshnessTaskConfig" ->
            <<"s","o","u","r","c","e","-","f","r","e","s","h","n","e","s","s">>
      [] t = "TestTaskConfig"            -> <<"t","e","s","t">>

\* The default of the `cls` field of each leaf configuration.
Cls(t) ==
    CASE t = "BuildTaskConfig"           -> "BuildTask"
      [] t = "CleanTaskConfig"           -> "CleanTask"
      [] t = "CompileTaskConfig"         -> "CompileTask"
      [] t = "DebugTaskConfig"           -> "DebugTask"
      [] t = "DepsTaskConfig"            -> "DepsTask"
      [] t = "ListTaskConfig"            -> "ListTask"
      [] t = "ParseTaskConfig"           -> "ParseTask"
      [] t = "RunTaskConfig"             -> "RunTask"
      [] t = "RunOperationTaskConfig"    -> "RunOperationTask"
      [] t = "SeedTaskConfig"            -> "SeedTask"
      [] t = "SnapshotTaskConfig"        -> "SnapshotTask"
      [] t = "SourceFreshnessTaskConfig" -> "FreshnessTask"
      [] t = "TestTaskConfig"            -> "TestTask"

(***************************************************************************)
(* ConfigFactory: member name -> value, and the name lookup cls[...] of    *)
(* FromStrMixin.from_str.                                                  *)
(***************************************************************************)
\* The members of the ConfigFactory enum, by name, with their values.
ConfigFactory ==
    { << <<"B","U","I","L","D">>, "BuildTaskConfig" >>,
      << <<"C","O","M","P","I","L","E">>, "CompileTaskConfig" >>,
      << <<"C","L","E","A","N">>, "CleanTaskConfig" >>,
      << <<"D","E","B","U","G">>, "DebugTaskConfig" >>,
      << <<"D","E","P","S">>, "DepsTaskConfig" >>,
      << <<"L","I","S","T">>, "ListTaskConfig" >>,
      << <<"P","A","R","S","E">>, "ParseTaskConfig" >>,
      << <<"R","U","N">>, "RunTaskConfig" >>,
      << <<"R","U","N","_","O","P","E","R","A","T","I","O","N">>,
         "RunOperationTaskConfig" >>,
      << <<"S","E","E","D">>, "SeedTaskConfig" >>,
      << <<"S","N","A","P","S","H","O","T">>, "SnapshotTaskConfig" >>,
      << <<"S","O","U","R","C","E">>, "SourceFreshnessTaskConfig" >>,
      << <<"T","E","S","T">>, "TestTaskConfig" >> }

\* The names of the members of ConfigFactory.
ConfigFactoryNames == { m[1] : m \in ConfigFactory }

\* The value (a configuration type) of the ConfigFactory member called name.
ConfigFactoryValue(name) == (CHOOSE m \in ConfigFactory : m[1] = name)[2]

\* LogFormat, IndirectSelection and Output: the names of their members.
LogFormat == { <<"D","E","F","A","U","L","T">>, <<"J","S","O","N">>,
               <<"T","E","X","T">> }

IndirectSelection == { <<"E","A","G","E","R">>, <<"C","A","U","T","I","O","S">> }

Output == { <<"J","S","O","N">>, <<"N","A","M","E">>, <<"P","A","T","H">>,
            <<"S","E","L","E","C","T","O","R">> }

\* FromStrMixin.from_str(cls, s): cls[s.replace("-", "_").upper()], with cls
\* given by the names of its members; the member found, or a KeyError.
from_str(cls, s) ==
    LET name == StrUpper(ReplaceDash(s))
    IN  IF name \in cls
        THEN [state |-> "member", name |-> name]
        ELSE [state |-> "KeyError"]

(***************************************************************************)
(* Inputs of get_config_factory: every command name in four letter-case    *)
(* patterns and three separator spellings, the member names themselves,    *)
(* and every string of at most MaxLen characters over a small alphabet.    *)
(***************************************************************************)
CommandNames == { Which(t) : t \in ConfigTypes }

CaseModes == { "lower", "upper", "title", "alternate" }

SepModes == { "asis", "dash", "underscore" }

Respell(s, cm, sm) ==
    [i \in 1..Len(s) |->
        LET c == IF s[i] \in {"-", "_"}
                 THEN (CASE sm = "asis" -> s[i]
                         [] sm = "dash" -> "-"
                         [] sm = "underscore" -> "_")
                 ELSE s[i]
        IN  CASE cm = "lower" -> LowerChar(c)
              [] cm = "upper" -> UpperChar(c)
              [] cm = "title" -> IF i = 1 THEN UpperChar(c) ELSE LowerChar(c)
              [] cm = "alternate" ->
                    IF i % 2 = 0 THEN UpperChar(c) ELSE LowerChar(c)]

FreeAlphabet == { "r", "u", "n", "N", "-", "_" }

FreeStrings == UNION { [1..n -> FreeAlphabet] : n \in 0..MaxLen }

OtherStrings ==
    { <<"s","o","u","r","c","e">>,
      <<"f","r","e","s","h","n","e","s","s">>,
      <<"r","u","n"," ","o","p","e","r","a","t","i","o","n">>,
      <<"r","u","n","o","p","e","r","a","t","i","o","n">>,
      <<"r","u","n","s">>,
      <<"d","o","c","s">> }

CommandInputs ==
    { Respell(s, cm, sm) :
        s \in CommandNames \cup OtherStrings \cup ConfigFactoryNames,
        cm \in CaseModes, sm \in SepModes }
    \cup FreeStrings

(***************************************************************************)
(* Python values held by configuration fields.                             *)
(***************************************************************************)
PyNone == [t |-> "None"]

PyStr(s) == [t |-> "str", s |-> s]

PyInt(i) == [t |-> "int", i |-> i]

PyBool(b) == [t |-> "bool", b |-> b]

\* A dict with string keys: its items, in insertion order, as <<key, value>>.
PyDict(items) == [t |-> "dict", items |-> items]

\* A member of one of the option enums (LogFormat, IndirectSelection, Output).
PyEnum(enum, name) == [t |-> "enum", enum |-> enum, name |-> name]

\* The attribute does not exist on this configuration type.
NoAttr == [t |-> "absent"]

Digits == <<"0","1","2","3","4","5","6","7","8","9">>

RECURSIVE IntDigits(_)
\* The decimal digits of a non-negative integer (str(int), json.dumps(int)).
IntDigits(n) ==
    IF n < 10 THEN <<Digits[n + 1]>>
    ELSE IntDigits(n \div 10) \o <<Digits[(n % 10) + 1]>>

RECURSIVE Concat(_)
\* The concatenation of a sequence of strings.
Concat(ss) == IF ss = <<>> THEN <<>> ELSE Head(ss) \o Concat(Tail(ss))

RECURSIVE Join(_, _)
\* sep.join(ss)
Join(sep, ss) ==
    IF ss = <<>> THEN <<>>
    ELSE IF Len(ss) = 1 THEN ss[1]
    ELSE ss[1] \o sep \o Join(sep, Tail(ss))

Chars(s) == { s[i] : i \in 1..Len(s) }

(***************************************************************************)
(* json.dumps of a dict with string keys and str / int / bool / None       *)
(* values, with the default separators ", " and ": ".                      *)
(***************************************************************************)
\* The JSON string literal of s: double quotes, with " and \ escaped.
JsonString(s) ==
    <<"\"">> \o
    Concat([i \in 1..Len(s) |->
              IF s[i] \in {"\"", "\\"} THEN <<"\\", s[i]>> ELSE <<s[i]>>])
    \o <<"\"">>

JsonValue(v) ==
    CASE v.t = "str"  -> JsonString(v.s)
      [] v.t = "int"  -> IntDigits(v.i)
      [] v.t = "bool" -> IF v.b THEN <<"t","r","u","e">>
                                ELSE <<"f","a","l","s","e">>
      [] v.t = "None" -> <<"n","u","l","l">>

\* json.dumps(d)
json_dumps(d) ==
    <<"{">> \o
    Join(<<",", " ">>,
         [i \in 1..Len(d.items) |->
            JsonString(d.items[i][1]) \o <<":", " ">>
              \o JsonValue(d.items[i][2])])
    \o <<"}">>

(***************************************************************************)
(* str(d) of the same dicts: the repr of each key and value.               *)
(***************************************************************************)
\* repr(s): single quotes, unless s holds a ' and no "; the quote in use and
\* the backslash are escaped.
ReprString(s) ==
    LET q == IF "'" \in Chars(s) /\ "\"" \notin Chars(s) THEN "\"" ELSE "'"
    IN  <<q>> \o
        Concat([i \in 1..Len(s) |->
                  IF s[i] \in {q, "\\"} THEN <<"\\", s[i]>> ELSE <<s[i]>>])
        \o <<q>>

ReprValue(v) ==
    CASE v.t = "str"  -> ReprString(v.s)
      [] v.t = "int"  -> IntDigits(v.i)
      [] v.t = "bool" -> IF v.b THEN <<"T","r","u","e">>
                                ELSE <<"F","a","l","s","e">>
      [] v.t = "None" -> <<"N","o","n","e">>

\* str(d)
str_dict(d) ==
    <<"{">> \o
    Join(<<",", " ">>,
         [i \in 1..Len(d.items) |->
            ReprString(d.items[i][1]) \o <<":", " ">>
              \o ReprValue(d.items[i][2])])
    \o <<"}">>

(***************************************************************************)
(* json.loads, for the documents the two serializations above can produce: *)
(* an object whose keys are strings and whose values are strings,          *)
(* non-negative integers, true, false or null.  A parse step returns       *)
(* [ok, v, next]: whether it succeeded, the value read and the index after *)
(* it.  Anything else is a JSONDecodeError (ok = FALSE).                   *)
(***************************************************************************)
ParseFail == [ok |-> FALSE, v |-> PyNone, next |-> 0]

RECURSIVE SkipWs(_, _)
SkipWs(s, i) == IF i <= Len(s) /\ s[i] = " " THEN SkipWs(s, i + 1) ELSE i

RECURSIVE ReadString(_, _, _)
\* The characters of a string literal from index i, after its opening quote.
ReadString(s, i, acc) ==
    IF i > Len(s) THEN ParseFail
    ELSE IF s[i] = "\"" THEN [ok |-> TRUE, v |-> PyStr(acc), next |-> i + 1]
    ELSE IF s[i] = "\\"
         THEN IF i + 1 <= Len(s) /\ s[i + 1] \in {"\"", "\\"}
              THEN ReadString(s, i + 2, Append(acc, s[i + 1]))
              ELSE ParseFail
    ELSE ReadString(s, i + 1, Append(acc, s[i]))

ParseString(s, i) ==
    IF i <= Len(s) /\ s[i] = "\"" THEN ReadString(s, i + 1, <<>>) ELSE ParseFail

StartsWith(s, i, w) ==
    /\ i + Len(w) - 1 <= Len(s)
    /\ \A k \in 1..Len(w) : s[i + k - 1] = w[k]

IsDigit(c) == \E k \in 1..10 : Digits[k] = c

DigitValue(c) == (CHOOSE k \in 1..10 : Digits[k] = c) - 1

RECURSIVE ReadInt(_, _, _)
ReadInt(s, i, acc) ==
    IF i <= Len(s) /\ IsDigit(s[i])
    THEN ReadInt(s, i + 1, acc * 10 + DigitValue(s[i]))
    ELSE [ok |-> TRUE, v |-> PyInt(acc), next |-> i]

ParseValue(s, i) ==
    IF i > Len(s) THEN ParseFail
    ELSE IF s[i] = "\"" THEN ParseString(s, i)
    ELSE IF IsDigit(s[i])
         THEN IF s[i] = "0" /\ i + 1 <= Len(s) /\ IsDigit(s[i + 1])
              THEN ParseFail
              ELSE ReadInt(s, i, 0)
    ELSE IF StartsWith(s, i, <<"t","r","u","e">>)
         THEN [ok |-> TRUE, v |-> PyBool(TRUE), next |-> i + 4]
    ELSE IF StartsWith(s, i, <<"f","a","l","s","e">>)
         THEN [ok |-> TRUE, v |-> PyBool(FALSE), next |-> i + 5]
    ELSE IF StartsWith(s, i, <<"n","u","l","l">>)
         THEN [ok |-> TRUE, v |-> PyNone, next |-> i + 4]
    ELSE ParseFail

\* A later occurrence of a key replaces the earlier one, as in a Python dict.
PutItem(items, k, v) ==
    IF \E j \in 1..Len(items) : items[j][1] = k
    THEN [j \in 1..Len(items) |->
            IF items[j][1] = k THEN <<k, v>> ELSE items[j]]
    ELSE Append(items, <<k, v>>)

RECURSIVE ParseMembers(_, _, _)
\* The members of an object from index i, which is at the start of a key.
ParseMembers(s, i, acc) ==
    LET k == ParseString(s, i)
    IN  IF ~k.ok THEN ParseFail
        ELSE
        LET c == SkipWs(s, k.next)
        IN  IF ~(c <= Len(s) /\ s[c] = ":") THEN ParseFail
            ELSE
            LET v == ParseValue(s, SkipWs(s, c + 1))
            IN  IF ~v.ok THEN ParseFail
                ELSE
                LET items == PutItem(acc, k.v.s, v.v)
                    e == SkipWs(s, v.next)
                IN  IF e > Len(s) THEN ParseFail
                    ELSE IF s[e] = "}"
                         THEN [ok |-> TRUE, v |-> PyDict(items), next |-> e + 1]
                    ELSE IF s[e] = ","
                         THEN ParseMembers(s, SkipWs(s, e + 1), items)
                    ELSE ParseFail

ParseObject(s, i) ==
    IF ~(i <= Len(s) /\ s[i] = "{") THEN ParseFail
    ELSE LET j == SkipWs(s, i + 1)
         IN  IF j <= Len(s) /\ s[j] = "}"
             THEN [ok |-> TRUE, v |-> PyDict(<<>>), next |-> j + 1]
             ELSE ParseMembers(s, j, <<>>)

\* json.loads(s): the dict, or ParseFail for a JSONDecodeError.
json_loads(s) ==
    LET r == ParseObject(s, SkipWs(s, 1))
    IN  IF r.ok /\ SkipWs(s, r.next) > Len(s) THEN r ELSE ParseFail

\* Equality of two dicts: the same keys with the same values, in any order.
DictEq(d, e) ==
    /\ d.t = "dict" /\ e.t = "dict"
    /\ { d.items[j] : j \in 1..Len(d.items) }
         = { e.items[j] : j \in 1..Len(e.items) }

(***************************************************************************)
(* The dataclass configurations.  Of their fields the model keeps vars,    *)
(* args, log_format, indirect_selection, output, compiled_target, which    *)
(* and cls; the other fields are plain optional values that no operation   *)
(* of the module reads.                                                    *)
(***************************************************************************)
\* A task class of dbt, the value of a cls field.
PyClass(name) == [t |-> "class", name |-> name]

Braces == <<"{", "}">>

\* A variant in which which and cls are ordinary fields (no init=False).
InitFieldsAllSettable(t) ==
    {"vars", "log_format", "compiled_target", "which", "cls"}
    \cup (IF t \in {"BuildTaskConfig", "ListTaskConfig", "TestTaskConfig"}
          THEN {"indirect_selection"} ELSE {})
    \cup (IF t \in {"ListTaskConfig", "SourceFreshnessTaskConfig"}
          THEN {"output"} ELSE {})
    \cup (IF t = "RunOperationTaskConfig" THEN {"args"} ELSE {})

\* The fields of configuration type t that its generated __init__ accepts
\* as keyword arguments: which and cls are declared init=False.
InitFields(t) ==
    {"vars", "log_format", "compiled_target"}
    \cup (IF t \in {"BuildTaskConfig", "ListTaskConfig", "TestTaskConfig"}
          THEN {"indirect_selection"} ELSE {})
    \cup (IF t \in {"ListTaskConfig", "SourceFreshnessTaskConfig"}
          THEN {"output"} ELSE {})
    \cup (IF t = "RunOperationTaskConfig" THEN {"args"} ELSE {})

\* The declared default of every field of configuration type t.
Defaults(t) ==
    [ result             |-> "config",
      type               |-> t,
      vars               |-> PyStr(Braces),
      log_format         |-> PyNone,
      compiled_target    |-> PyNone,
      indirect_selection |->
          IF t \in {"BuildTaskConfig", "ListTaskConfig", "TestTaskConfig"}
          THEN PyNone ELSE NoAttr,
      output             |->
          IF t = "ListTaskConfig" THEN PyEnum("Output", <<"S","E","L","E","C","T","O","R">>)
          ELSE IF t = "SourceFreshnessTaskConfig" THEN PyNone
          ELSE NoAttr,
      args               |-> IF t = "RunOperationTaskConfig" THEN PyNone ELSE NoAttr,
      which              |-> PyStr(Which(t)),
      cls                |-> PyClass(Cls(t)) ]

\* The generated __init__: every keyword argument given is stored as it is,
\* every other field takes its default.
SetFields(t, kw) ==
    LET d == Defaults(t)
    IN  [ result             |-> "config",
          type               |-> t,
          vars               |-> IF "vars" \in DOMAIN kw THEN kw["vars"] ELSE d.vars,
          log_format         |-> IF "log_format" \in DOMAIN kw
                                 THEN kw["log_format"] ELSE d.log_format,
          compiled_target    |-> IF "compiled_target" \in DOMAIN kw
                                 THEN kw["compiled_target"] ELSE d.compiled_target,
          indirect_selection |-> IF "indirect_selection" \in DOMAIN kw
                                 THEN kw["indirect_selection"]
                                 ELSE d.indirect_selection,
          output             |-> IF "output" \in DOMAIN kw
                                 THEN kw["output"] ELSE d.output,
          args               |-> IF "args" \in DOMAIN kw THEN kw["args"] ELSE d.args,
          which              |-> IF "which" \in DOMAIN kw THEN kw["which"] ELSE d.which,
          cls                |-> IF "cls" \in DOMAIN kw THEN kw["cls"] ELSE d.cls ]

\* BaseConfig.__post_init__: a dict given for vars becomes json.dumps of it.
BasePostInit(c) ==
    IF c.vars.t = "dict" THEN [c EXCEPT !.vars = PyStr(json_dumps(c.vars))] ELSE c

\* RunOperationTaskConfig.__post_init__: the base one, then a dict given for
\* args becomes str of it.
RunOperationPostInit(c) ==
    LET b == BasePostInit(c)
    IN  IF b.args.t = "dict" THEN [b EXCEPT !.args = PyStr(str_dict(b.args))] ELSE b

\* t(**kw): a TypeError for a keyword argument that __init__ does not take,
\* else the fields set and __post_init__ run.
NewConfig(t, kw) ==
    IF ~(DOMAIN kw \subseteq InitFields(t))
    THEN [result |-> "TypeError"]
    ELSE IF t = "RunOperationTaskConfig"
         THEN RunOperationPostInit(SetFields(t, kw))
         ELSE BasePostInit(SetFields(t, kw))

(***************************************************************************)
(* Inputs of the construction: keyword arguments.                          *)
(***************************************************************************)
\* The keys of the mappings enumerated are the first MaxKeys of these.
KeyNames == << <<"a">>, <<"k", "'">>, <<"b">> >>

DictKeys == { KeyNames[i] : i \in 1..MaxKeys }

DictValues == { PyInt(1), PyStr(<<"x">>), PyNone, PyBool(TRUE) }

\* Every dict over DictKeys and DictValues, in every insertion order.
Mappings ==
    UNION { { PyDict([i \in 1..n |-> <<ks[i], vs[i]>>]) :
                ks \in { f \in [1..n -> DictKeys] :
                           \A i, j \in 1..n : i # j => f[i] # f[j] },
                vs \in [1..n -> DictValues] } :
            n \in 0..MaxKeys }

JsonText == PyStr(<<"{", "\"", "a", "\"", ":", " ", "1", "}">>)

\* vars and args, given as a dict, as text or (args) as None.
MappingKwargs ==
    UNION { { [f \in {"vars"} |-> m],
              [f \in {"args"} |-> m],
              [f \in {"vars", "args"} |-> m],
              [f \in {"vars", "args"} |-> IF f = "vars" THEN JsonText ELSE m],
              [f \in {"vars", "args"} |-> IF f = "vars" THEN m ELSE PyNone] } :
            m \in Mappings }
    \cup { [f \in {"vars"} |-> JsonText], [f \in {"args"} |-> JsonText] }

OptionValues(f) ==
    CASE f = "log_format" ->
            { PyEnum("LogFormat", <<"J","S","O","N">>),
              PyStr(<<"j","s","o","n">>), PyStr(<<"x","m","l">>), PyNone }
      [] f = "indirect_selection" ->
            { PyEnum("IndirectSelection", <<"E","A","G","E","R">>),
              PyStr(<<"b","u","g","g","y">>) }
      [] f = "output" ->
            { PyEnum("Output", <<"J","S","O","N">>), PyStr(<<"y","a","m","l">>) }

OptionFields == {"log_format", "indirect_selection", "output"}

\* Values for the option-variant fields, inside and outside their variants.
OptionKwargs ==
    UNION { { [f \in D |-> v[f]] :
                v \in { g \in [D -> UNION { OptionValues(f) : f \in D }] :
                          \A f \in D : g[f] \in OptionValues(f) } } :
            D \in SUBSET OptionFields }

\* Attempts to override which and cls, alone or beside another argument.
OverrideKwargs ==
    LET w == PyStr(<<"d","o","c","s">>)
        c == PyClass("GenerateTask")
    IN  { [f \in {"which"} |-> w],
          [f \in {"cls"} |-> c],
          [f \in {"which", "cls"} |-> IF f = "which" THEN w ELSE c],
          [f \in {"which", "log_format"} |->
              IF f = "which" THEN w ELSE PyEnum("LogFormat", <<"T","E","X","T">>)],
          [f \in {"cls", "vars"} |-> IF f = "cls" THEN c ELSE JsonText] }

KwargsInputs == MappingKwargs \cup OptionKwargs \cup OverrideKwargs

(***************************************************************************)
(* Construction of a configuration, directly and through ConfigFactory.    *)
(***************************************************************************)
\* ctype(**kwargs)
Construct ==
    /\ config.result = "pending"
    /\ config' = NewConfig(ctype, kwargs)
    /\ UNCHANGED <<resolveVars, constructVars, taskVars, runVars>>

\* ConfigFactory.create_config on the member whose value is ctype:
\* self.value(**kwargs), then dbt's initialize_config_values, which sets up
\* dbt's tracking and leaves the configuration's fields as they are.
create_config ==
    /\ config.result = "pending"
    /\ \E m \in ConfigFactory :
          /\ m[2] = ctype
          /\ config' = NewConfig(m[2], kwargs)
    /\ UNCHANGED <<resolveVars, constructVars, taskVars, runVars>>

(***************************************************************************)
(* dbt tasks.  An optional attribute is <<>> (None) or <<value>>.          *)
(***************************************************************************)
None == <<>>

Some(x) == <<x>>

TaskClasses == { Cls(t) : t \in ConfigTypes }

\* issubclass(c, ManifestTask) for the task classes imported from dbt:
\* GraphRunnableTask and RunOperationTask derive from ManifestTask, and
\* compile, run, build, seed, snapshot, test, list and freshness from
\* GraphRunnableTask; clean, debug and deps derive from BaseTask and parse
\* from ConfiguredTask.
IsManifestTask(c) ==
    c \in { "BuildTask", "CompileTask", "FreshnessTask", "ListTask", "RunTask",
            "RunOperationTask", "SeedTask", "SnapshotTask", "TestTask" }

\* The _runtime_initialize a task is born with, and the closure that
\* patch_manifest_task puts in its place, which reads the two files under dir.
Original == [kind |-> "original"]

Patched(dir) == [kind |-> "patched", dir |-> dir]

\* c.from_args(config): a task of class c, its attributes as dbt leaves them.
from_args(c) ==
    [ cls                 |-> c,
      runtime_initialize  |-> Original,
      graph               |-> None,
      manifest            |-> None,
      job_queue           |-> None,
      flattened_nodes     |-> None,
      num_nodes           |-> None ]

\* A variant without the isinstance check.
PatchErrorUnchecked(c, tk) ==
    IF c.compiled_target.t = "None" THEN "ValueError" ELSE "none"

\* The two checks at the head of BaseConfig.patch_manifest_task: the
\* exception raised, or "none".
PatchError(c, tk) ==
    IF ~IsManifestTask(tk.cls) THEN "TypeError"
    ELSE IF c.compiled_target.t = "None" THEN "ValueError"
    ELSE "none"

\* BaseConfig.patch_manifest_task(task): the task afterwards.
PatchedTask(c, tk) ==
    IF PatchError(c, tk) = "none"
    THEN [tk EXCEPT !.runtime_initialize = Patched(c.compiled_target.s)]
    ELSE tk

\* A variant that looks at compiled_target alone.
ShouldPatchAnyTask(c) == c.compiled_target.t # "None"

\* The condition under which create_dbt_task calls patch_manifest_task.
ShouldPatch(c) ==
    /\ c.compiled_target.t # "None"
    /\ IsManifestTask(c.cls.name)

\* BaseConfig.create_dbt_task: [task, raised].
CreateDbtTask(c) ==
    LET tk == from_args(c.cls.name)
    IN  IF ShouldPatch(c)
        THEN [task |-> PatchedTask(c, tk), raised |-> PatchError(c, tk)]
        ELSE [task |-> tk, raised |-> "none"]

(***************************************************************************)
(* The compiled-artifact bundle: graph.gpickle and manifest.json.          *)
(***************************************************************************)
UidNames == <<"model.A", "source.B", "model.C">>

Uids == { UidNames[i] : i \in 1..MaxUids }

\* manifest.nodes maps an identifier to a node that is or is not an ephemeral
\* model; manifest.sources to a source, which never is one.
Node(uid, ephemeral) ==
    [uid |-> uid, table |-> "nodes", is_ephemeral_model |-> ephemeral]

Source(uid) ==
    [uid |-> uid, table |-> "sources", is_ephemeral_model |-> FALSE]

Manifests ==
    UNION { { [nodes |-> [u \in D |-> Node(u, e[u])],
               sources |-> [u \in S |-> Source(u)]] :
                e \in [D -> BOOLEAN], S \in SUBSET Uids } :
            D \in SUBSET Uids }

Bundles == [graph : SUBSET Uids, manifest : Manifests]

\* The orders in which get_selected_nodes can hand out identifiers of a
\* graph: every sequence without repetition of some of its nodes.
Selections(graph) ==
    UNION { { f \in [1..n -> graph] : \A i, j \in 1..n : i # j => f[i] # f[j] } :
            n \in 0..Cardinality(graph) }

\* A variant that looks among manifest.sources first.
LookupSourcesFirst(manifest, uid) ==
    IF uid \in DOMAIN manifest.sources THEN Some(manifest.sources[uid])
    ELSE IF uid \in DOMAIN manifest.nodes THEN Some(manifest.nodes[uid])
    ELSE None

\* One turn of the loop over the selected identifiers: the node found, first
\* among manifest.nodes, then among manifest.sources.
Lookup(manifest, uid) ==
    IF uid \in DOMAIN manifest.nodes THEN Some(manifest.nodes[uid])
    ELSE IF uid \in DOMAIN manifest.sources THEN Some(manifest.sources[uid])
    ELSE None

RECURSIVE FlattenSkipping(_, _, _)
\* A variant that passes over an identifier found in neither table.
FlattenSkipping(manifest, sel, acc) ==
    IF sel = <<>> THEN [ok |-> TRUE, nodes |-> acc]
    ELSE LET n == Lookup(manifest, Head(sel))
         IN  IF n = None THEN FlattenSkipping(manifest, Tail(sel), acc)
             ELSE FlattenSkipping(manifest, Tail(sel), acc \o n)

RECURSIVE Flatten(_, _, _)
\* The loop: the nodes appended, and whether it ran to its end (ok) or
\* raised InternalException at an identifier found in neither table.
Flatten(manifest, sel, acc) ==
    IF sel = <<>> THEN [ok |-> TRUE, nodes |-> acc]
    ELSE LET n == Lookup(manifest, Head(sel))
         IN  IF n = None THEN [ok |-> FALSE, nodes |-> acc]
             ELSE Flatten(manifest, Tail(sel), acc \o n)

\* len([n for n in nodes if not n.is_ephemeral_model])
CountNonEphemeral(nodes) ==
    Cardinality({ i \in 1..Len(nodes) : ~nodes[i].is_ephemeral_model })

\* The substituted _runtime_initialize on a bundle read from disk, with sel
\* the identifiers task.get_graph_queue() selects: [task, raised].
RuntimeInitialize(tk, b, sel) ==
    LET r == Flatten(b.manifest, sel, <<>>)
        loaded == [tk EXCEPT !.graph = Some(b.graph),
                             !.manifest = Some(b.manifest),
                             !.job_queue = Some(sel),
                             !.flattened_nodes = Some(r.nodes)]
    IN  IF r.ok
        THEN [task |-> [loaded EXCEPT !.num_nodes = Some(CountNonEphemeral(r.nodes))],
              raised |-> "none"]
        ELSE [task |-> loaded, raised |-> "InternalException"]

(***************************************************************************)
(* Operations on a task.                                                   *)
(***************************************************************************)
\* A caller makes a task of any class with from_args.
make_task ==
    /\ task = None
    /\ \E c \in TaskClasses : task' = Some(from_args(c))
    /\ last' = "from_args"
    /\ raised' = "none"
    /\ UNCHANGED <<resolveVars, constructVars, config, bundle, runVars>>

\* config.patch_manifest_task(task)
patch_manifest_task ==
    /\ task # None
    /\ task' = Some(PatchedTask(config, task[1]))
    /\ raised' = PatchError(config, task[1])
    /\ last' = "patch_manifest_task"
    /\ UNCHANGED <<resolveVars, constructVars, config, bundle, runVars>>

\* config.create_dbt_task()
create_dbt_task ==
    /\ task = None
    /\ LET r == CreateDbtTask(config)
       IN  /\ task' = IF r.raised = "none" THEN Some(r.task) ELSE None
           /\ raised' = r.raised
    /\ last' = "create_dbt_task"
    /\ UNCHANGED <<resolveVars, constructVars, config, bundle, runVars>>

\* task._runtime_initialize() on a patched task: open() raises when the
\* files are missing; else the bundle is loaded and the identifiers that
\* get_graph_queue selects from its graph are flattened.
runtime_initialize ==
    /\ task # None
    /\ task[1].runtime_initialize.kind = "patched"
    /\ \/ /\ bundle # None
          /\ \E sel \in Selections(bundle[1].graph) :
                LET r == RuntimeInitialize(task[1], bundle[1], sel)
                IN  /\ task' = Some(r.task)
                    /\ raised' = r.raised
       \/ /\ bundle = None
          /\ raised' = "FileNotFoundError"
          /\ UNCHANGED task
    /\ last' = "_runtime_initialize"
    /\ UNCHANGED <<resolveVars, constructVars, config, bundle, runVars>>

(***************************************************************************)
(* DbtHook.get_config_factory                                              *)
(***************************************************************************)
\* DbtHook.get_config_factory(command): ConfigFactory.from_str(command).
get_config_factory ==
    /\ factory.state = "pending"
    /\ factory' = from_str(ConfigFactoryNames, command)
    /\ UNCHANGED <<command, constructVars, config, taskVars, runVars>>

(***************************************************************************)
(* DbtHook.run_dbt_task, called by the threads of one process.  Each call  *)
(* of a collaborator is one step, and calls[t] lists them in order.        *)
(***************************************************************************)
Threads == {1, 2}

\* dbt's flags as flags.reset() leaves them.
DefaultFlags == [WHICH |-> PyNone, LOG_FORMAT |-> PyNone]

\* A variant that leaves the flags as flags.reset() left them.
set_from_args_skipped(f, c) == f

\* flags.set_from_args(config): the flags take the values the configuration
\* holds for them.
set_from_args(f, c) == [WHICH |-> c.which, LOG_FORMAT |-> c.log_format]

\* A variant without the DepsTask exception.
LoadsDependenciesAlways(tk) == TRUE

\* The test before runtime_config.load_dependencies().
LoadsDependencies(tk) == tk.cls # "DepsTask"

\* The configurations run_dbt_task is called with.
RunConfigs ==
    { NewConfig("RunTaskConfig",
                [f \in {"log_format"} |-> PyEnum("LogFormat", <<"J","S","O","N">>)]),
      NewConfig("DepsTaskConfig", <<>>),
      NewConfig("DebugTaskConfig",
                [f \in {"log_format"} |-> PyEnum("LogFormat", <<"T","E","X","T">>)]) }

Active(t) == pc[t] # "idle"

\* A thread calls run_dbt_task(config).
run_dbt_task(t) ==
    /\ pc[t] = "idle"
    /\ started < MaxRuns
    /\ \E c \in RunConfigs : rconfig' = [rconfig EXCEPT ![t] = Some(c)]
    /\ pc' = [pc EXCEPT ![t] = "reset"]
    /\ calls' = [calls EXCEPT ![t] = <<>>]
    /\ rtask' = [rtask EXCEPT ![t] = None]
    /\ started' = started + 1
    /\ overlap' = [u \in Threads |->
                     IF u = t THEN \E v \in Threads \ {t} : Active(v)
                     ELSE IF Active(u) THEN TRUE ELSE overlap[u]]
    /\ UNCHANGED <<flags, served>>
    /\ UNCHANGED <<resolveVars, constructVars, config, taskVars>>

\* initialize_runtime_config: flags.reset()
flags_reset(t) ==
    /\ pc[t] = "reset"
    /\ flags' = DefaultFlags
    /\ calls' = [calls EXCEPT ![t] = Append(@, "flags.reset")]
    /\ pc' = [pc EXCEPT ![t] = "set"]
    /\ UNCHANGED <<rconfig, rtask, started, overlap, served>>
    /\ UNCHANGED <<resolveVars, constructVars, config, taskVars>>

\* initialize_runtime_config: flags.set_from_args(config)
flags_set_from_args(t) ==
    /\ pc[t] = "set"
    /\ flags' = set_from_args(flags, rconfig[t][1])
    /\ calls' = [calls EXCEPT ![t] = Append(@, "flags.set_from_args")]
    /\ pc' = [pc EXCEPT ![t] = "runtime_config"]
    /\ UNCHANGED <<rconfig, rtask, started, overlap, served>>
    /\ UNCHANGED <<resolveVars, constructVars, config, taskVars>>

\* initialize_runtime_config: RuntimeConfig.from_args(config)
runtime_config_from_args(t) ==
    /\ pc[t] = "runtime_config"
    /\ calls' = [calls EXCEPT ![t] = Append(@, "RuntimeConfig.from_args")]
    /\ pc' = [pc EXCEPT ![t] = "create"]
    /\ UNCHANGED <<flags, rconfig, rtask, started, overlap, served>>
    /\ UNCHANGED <<resolveVars, constructVars, config, taskVars>>

\* config.dbt_task.pre_init_hook(config); task = config.create_dbt_task()
create_task(t) ==
    /\ pc[t] = "create"
    /\ LET r == CreateDbtTask(rconfig[t][1])
       IN  IF r.raised = "none"
           THEN /\ rtask' = [rtask EXCEPT ![t] = Some(r.task)]
                /\ calls' = [calls EXCEPT ![t] =
                               @ \o <<"pre_init_hook", "create_dbt_task">>]
                /\ pc' = [pc EXCEPT ![t] = "deps"]
           ELSE /\ calls' = [calls EXCEPT ![t] = Append(@, "pre_init_hook")]
                /\ pc' = [pc EXCEPT ![t] = "idle"]
                /\ UNCHANGED rtask
    /\ UNCHANGED <<flags, rconfig, started, overlap, served>>
    /\ UNCHANGED <<resolveVars, constructVars, config, taskVars>>

\* if not isinstance(task, DepsTask): runtime_config.load_dependencies()
load_dependencies(t) ==
    /\ pc[t] = "deps"
    /\ calls' = [calls EXCEPT ![t] =
                   IF LoadsDependencies(rtask[t][1])
                   THEN Append(@, "load_dependencies") ELSE @]
    /\ pc' = [pc EXCEPT ![t] = "register"]
    /\ UNCHANGED <<flags, rconfig, rtask, started, overlap, served>>
    /\ UNCHANGED <<resolveVars, constructVars, config, taskVars>>

\* register_adapter(runtime_config), then task.run() is entered.
register_adapter(t) ==
    /\ pc[t] = "register"
    /\ calls' = [calls EXCEPT ![t] = @ \o <<"register_adapter", "task.run">>]
    /\ pc' = [pc EXCEPT ![t] = "run"]
    /\ UNCHANGED <<flags, rconfig, rtask, started, overlap, served>>
    /\ UNCHANGED <<resolveVars, constructVars, config, taskVars>>

\* task.run() returns; task.interpret_results(results); the call returns.
task_returns(t) ==
    /\ pc[t] = "run"
    /\ calls' = [calls EXCEPT ![t] = Append(@, "interpret_results")]
    /\ pc' = [pc EXCEPT ![t] = "idle"]
    /\ served' = IF overlap[t] THEN served
                 ELSE served \cup {rconfig[t][1].type}
    /\ UNCHANGED <<flags, rconfig, rtask, started, overlap>>
    /\ UNCHANGED <<resolveVars, constructVars, config, taskVars>>

\* A collaborator raises; the exception leaves run_dbt_task.
collaborator_raises(t) ==
    /\ pc[t] \in {"runtime_config", "create", "deps", "register", "run"}
    /\ pc' = [pc EXCEPT ![t] = "idle"]
    /\ UNCHANGED <<flags, rconfig, rtask, calls, started, overlap, served>>
    /\ UNCHANGED <<resolveVars, constructVars, config, taskVars>>

(***************************************************************************)
(* Specifications.                                                         *)
(***************************************************************************)
NoResolve == command = <<>> /\ factory = [state |-> "unused"]

NoConstruction == ctype = "unused" /\ kwargs = <<>>

NoTask == task = None /\ last = "none" /\ raised = "none" /\ bundle = None

NoRun ==
    /\ flags = DefaultFlags
    /\ pc = [t \in Threads |-> "idle"]
    /\ rconfig = [t \in Threads |-> None]
    /\ rtask = [t \in Threads |-> None]
    /\ calls = [t \in Threads |-> <<>>]
    /\ started = 0
    /\ overlap = [t \in Threads |-> FALSE]
    /\ served = {}

\* get_config_factory on every command string.
InitResolve ==
    /\ command \in CommandInputs
    /\ factory = [state |-> "pending"]
    /\ NoConstruction /\ config = [result |-> "unused"] /\ NoTask /\ NoRun

NextResolve == get_config_factory

SpecResolve == InitResolve /\ [][NextResolve]_vars

\* Construction of every configuration type with every keyword arguments.
InitConfig ==
    /\ ctype \in ConfigTypes
    /\ kwargs \in KwargsInputs
    /\ config = [result |-> "pending"]
    /\ NoResolve /\ NoTask /\ NoRun

NextConfig == Construct \/ create_config

SpecConfig == InitConfig /\ [][NextConfig]_vars

\* The compiled_target a configuration is given: None, "" or a directory.
TargetDir == <<"t","a","r","g","e","t">>

CompiledTargets == { PyNone, PyStr(<<>>), PyStr(TargetDir) }

\* Tasks of every class, made for and patched with every configuration.
InitPatch ==
    /\ \E t \in ConfigTypes, d \in CompiledTargets :
          config = NewConfig(t, [f \in {"compiled_target"} |-> d])
    /\ NoTask
    /\ NoResolve /\ NoConstruction /\ NoRun

NextPatch == make_task \/ patch_manifest_task \/ create_dbt_task

SpecPatch == InitPatch /\ [][NextPatch]_vars

\* The substituted _runtime_initialize of a patched task, on every bundle.
GraphTaskConfigs == { "RunTaskConfig", "ListTaskConfig" }

InitInitialize ==
    /\ \E t \in GraphTaskConfigs :
          config = NewConfig(t, [f \in {"compiled_target"} |-> PyStr(TargetDir)])
    /\ task = None /\ last = "none" /\ raised = "none"
    /\ bundle \in {None} \cup { Some(b) : b \in Bundles }
    /\ NoResolve /\ NoConstruction /\ NoRun

NextInitialize == create_dbt_task \/ runtime_initialize

SpecInitialize == InitInitialize /\ [][NextInitialize]_vars

\* run_dbt_task called from the threads of one process, with no lock.
InitRun ==
    /\ NoRun
    /\ NoResolve /\ NoConstruction /\ config = [result |-> "unused"] /\ NoTask

NextRun ==
    \E t \in Threads :
        \/ run_dbt_task(t)
        \/ flags_reset(t)
        \/ flags_set_from_args(t)
        \/ runtime_config_from_args(t)
        \/ create_task(t)
        \/ load_dependencies(t)
        \/ register_adapter(t)
        \/ task_returns(t)
        \/ collaborator_raises(t)

SpecRun == InitRun /\ [][NextRun]_vars

(***************************************************************************)
(* Properties of get_config_factory (SpecResolve).                         *)
(***************************************************************************)
\* s spells the command name: the same letters in any case, with "-" or "_"
\* wherever the name has "-".
IsSpellingOf(s, name) ==
    /\ Len(s) = Len(name)
    /\ \A i \in 1..Len(name) :
          IF name[i] = "-" THEN s[i] \in {"-", "_"}
          ELSE LowerChar(s[i]) = name[i]

SupportedTypes(s) == { t \in ConfigTypes : IsSpellingOf(s, Which(t)) }

\* C1: get_config_factory returns, for every spelling of one of the thirteen
\* command names, the member whose configuration type has that command as
\* its `which`, and fails for every other string.
C1_ResolvesEveryCommandName ==
    factory.state \in {"member", "KeyError"} =>
        IF SupportedTypes(command) # {}
        THEN /\ factory.state = "member"
             /\ ConfigFactoryValue(factory.name) \in SupportedTypes(command)
        ELSE factory.state = "KeyError"

(***************************************************************************)
(* Properties of the construction of a configuration (SpecConfig).         *)
(***************************************************************************)
Built == config.result = "config"

Constructed == config.result \in {"config", "TypeError"}

\* C2: a dict given for vars or args is stored as its canonical (JSON)
\* serialization, which deserializes to the dict given; the two fields are
\* serialized alike.
C2_MappingFieldsRoundTrip ==
    Built =>
        \A f \in {"vars", "args"} \cap DOMAIN kwargs :
            kwargs[f].t = "dict" =>
                /\ config[f] = PyStr(json_dumps(kwargs[f]))
                /\ json_loads(config[f].s).ok
                /\ DictEq(json_loads(config[f].s).v, kwargs[f])

Overrides == {"which", "cls"} \cap DOMAIN kwargs # {}

\* C3, as claimed: a keyword argument for which or cls has no effect: the
\* construction succeeds and both fields hold the defaults of the type.
C3_OverrideHasNoEffect ==
    (Constructed /\ Overrides /\ DOMAIN kwargs \subseteq {"which", "cls"}) =>
        /\ Built
        /\ config.which = PyStr(Which(ctype))
        /\ config.cls = PyClass(Cls(ctype))

\* C3, amended: a keyword argument for which or cls makes the construction
\* fail with a TypeError, and every configuration that is built holds the
\* defaults of its type in both fields.
C3_OverrideIsRejected ==
    /\ (Constructed /\ Overrides) => config.result = "TypeError"
    /\ Built => /\ config.which = PyStr(Which(config.type))
                /\ config.cls = PyClass(Cls(config.type))

\* A construction given only `which`, which was refused.
C3_Witness ==
    /\ DOMAIN kwargs = {"which"}
    /\ config.result = "TypeError"

OptionEnum(f) ==
    CASE f = "log_format" -> LogFormat
      [] f = "indirect_selection" -> IndirectSelection
      [] f = "output" -> Output

\* v is within the variants declared for option field f of type t: unset,
\* a member of the field's enum, or text that names one.  The output of
\* SourceFreshnessTaskConfig is a path, not a variant.
ValidOption(t, f, v) ==
    \/ v.t \in {"None", "absent"}
    \/ v.t = "enum" /\ v.name \in OptionEnum(f)
    \/ v.t = "str" /\ from_str(OptionEnum(f), v.s).state = "member"
    \/ f = "output" /\ t = "SourceFreshnessTaskConfig" /\ v.t = "str"

\* C6: no configuration is built that holds, in log_format,
\* indirect_selection or output, a value outside the field's variants.
C6_NoInvalidOption ==
    Built => \A f \in OptionFields : ValidOption(config.type, f, config[f])

(***************************************************************************)
(* Properties of patch_manifest_task and create_dbt_task (SpecPatch).      *)
(***************************************************************************)
JustPatched == last = "patch_manifest_task"

NoPath == config.compiled_target.t = "None"

EmptyPath == config.compiled_target = PyStr(<<>>)

\* C4, as claimed: patch_manifest_task raises TypeError for a task outside
\* the ManifestTask family, and ValueError for a task of the family when
\* compiled_target is absent or empty; in both cases _runtime_initialize is
\* left as it was.
C4_PatchPreconditions ==
    JustPatched =>
        /\ ~IsManifestTask(task[1].cls) =>
              /\ raised = "TypeError"
              /\ task[1].runtime_initialize = Original
        /\ (IsManifestTask(task[1].cls) /\ (NoPath \/ EmptyPath)) =>
              /\ raised = "ValueError"
              /\ task[1].runtime_initialize = Original

\* C4, amended: ValueError is raised when compiled_target is None; an empty
\* string is a path like any other, and the task is patched.
C4_PatchPreconditionsNone ==
    JustPatched =>
        /\ ~IsManifestTask(task[1].cls) =>
              /\ raised = "TypeError"
              /\ task[1].runtime_initialize = Original
        /\ (IsManifestTask(task[1].cls) /\ NoPath) =>
              /\ raised = "ValueError"
              /\ task[1].runtime_initialize = Original
        /\ (IsManifestTask(task[1].cls) /\ ~NoPath) =>
              /\ raised = "none"
              /\ task[1].runtime_initialize = Patched(config.compiled_target.s)

\* A task of the family was refused for want of a path.
C4_Witness ==
    /\ JustPatched
    /\ task[1].cls = "RunTask"
    /\ NoPath
    /\ raised = "ValueError"

\* C7: create_dbt_task returns a task of the configuration's class, patched
\* exactly when compiled_target is set and the class is a ManifestTask, and
\* raises none of the patch's errors.
C7_PatchedIffSetAndManifestTask ==
    last = "create_dbt_task" =>
        /\ raised = "none"
        /\ task # None
        /\ task[1].cls = Cls(config.type)
        /\ IF ~NoPath /\ IsManifestTask(Cls(config.type))
           THEN task[1].runtime_initialize = Patched(config.compiled_target.s)
           ELSE task[1].runtime_initialize = Original

\* create_dbt_task on a clean configuration that carries a path.
C7_Witness ==
    /\ last = "create_dbt_task"
    /\ config.type = "CleanTaskConfig"
    /\ config.compiled_target = PyStr(TargetDir)
    /\ task # None
    /\ task[1].runtime_initialize = Original

(***************************************************************************)
(* Properties of the substituted _runtime_initialize (SpecInitialize).     *)
(***************************************************************************)
InManifest(m, uid) == uid \in DOMAIN m.nodes \cup DOMAIN m.sources

Missing(m, sel) == { i \in 1..Len(sel) : ~InManifest(m, sel[i]) }

\* C8: after the substituted _runtime_initialize ran on a bundle whose
\* manifest holds every selected identifier, the task holds the graph and the
\* manifest of the bundle, a job queue over that graph, one flattened node per
\* selected identifier, in order, from manifest.nodes if it is there and from
\* manifest.sources if not, and the number of those that are not ephemeral.
C8_InitializedFromBundle ==
    (last = "_runtime_initialize" /\ bundle # None
       /\ Missing(bundle[1].manifest, task[1].job_queue[1]) = {}) =>
        LET m == bundle[1].manifest
            sel == task[1].job_queue[1]
            flat == task[1].flattened_nodes[1]
        IN  /\ raised = "none"
            /\ task[1].graph = Some(bundle[1].graph)
            /\ task[1].manifest = Some(m)
            /\ \A i \in 1..Len(sel) : sel[i] \in bundle[1].graph
            /\ Len(flat) = Len(sel)
            /\ \A i \in 1..Len(sel) :
                  flat[i] = IF sel[i] \in DOMAIN m.nodes
                            THEN m.nodes[sel[i]] ELSE m.sources[sel[i]]
            /\ task[1].num_nodes =
                 Some(Cardinality({ i \in 1..Len(flat) :
                                      ~flat[i].is_ephemeral_model }))

\* Two identifiers selected: one listed as an ephemeral node and as a source,
\* the other as a source only.
C8_Witness ==
    /\ last = "_runtime_initialize"
    /\ raised = "none"
    /\ bundle # None
    /\ LET m == bundle[1].manifest
           sel == task[1].job_queue[1]
       IN  /\ Len(sel) = 2
           /\ \E i \in 1..2 : /\ sel[i] \in DOMAIN m.nodes \cap DOMAIN m.sources
                              /\ m.nodes[sel[i]].is_ephemeral_model
           /\ \E i \in 1..2 : sel[i] \notin DOMAIN m.nodes
    /\ task[1].num_nodes = Some(1)

\* C9: when a selected identifier is in neither table of the manifest, the
\* substituted _runtime_initialize raises InternalException at the first such
\* identifier (the nodes before it are flattened, none after it), and
\* num_nodes keeps the value it had before the call.
C9_MissingNodeRaises ==
    [][ (last' = "_runtime_initialize" /\ bundle # None
           /\ Missing(bundle[1].manifest, task'[1].job_queue[1]) # {}) =>
          LET m == bundle[1].manifest
              sel == task'[1].job_queue[1]
              first == CHOOSE i \in Missing(m, sel) :
                          \A j \in Missing(m, sel) : i <= j
              flat == task'[1].flattened_nodes[1]
          IN  /\ raised' = "InternalException"
              /\ Len(flat) = first - 1
              /\ \A i \in 1..(first - 1) : flat[i].uid = sel[i]
              /\ task'[1].num_nodes = task[1].num_nodes ]_vars

\* A call that failed at its second identifier, after an earlier call had
\* counted the nodes.
C9_Witness ==
    /\ last = "_runtime_initialize"
    /\ raised = "InternalException"
    /\ Len(task[1].flattened_nodes[1]) = 1
    /\ task[1].num_nodes # None

(***************************************************************************)
(* Properties of run_dbt_task (SpecRun).                                   *)
(***************************************************************************)
Positions(t, call) == { i \in 1..Len(calls[t]) : calls[t][i] = call }

IsDepsRun(t) == rconfig[t][1].cls = PyClass("DepsTask")

\* C5: an invocation for the deps command never calls load_dependencies; an
\* invocation for any other command that gets to task.run has called it
\* exactly once, after create_dbt_task and before task.run.
C5_LoadDependenciesUnlessDeps ==
    \A t \in Threads :
        rconfig[t] # None =>
            /\ IsDepsRun(t) => Positions(t, "load_dependencies") = {}
            /\ (~IsDepsRun(t) /\ Positions(t, "task.run") # {}) =>
                  /\ Cardinality(Positions(t, "load_dependencies")) = 1
                  /\ \A i \in Positions(t, "create_dbt_task"),
                        j \in Positions(t, "load_dependencies"),
                        k \in Positions(t, "task.run") : i < j /\ j < k
                  /\ Positions(t, "create_dbt_task") # {}

\* A deps invocation and a run invocation, both with their task running.
C5_Witness ==
    \E t, u \in Threads :
        /\ pc[t] = "run" /\ IsDepsRun(t)
        /\ pc[u] = "run" /\ rconfig[u][1].type = "RunTaskConfig"

\* The flags are those of configuration c.
FlagsAreOf(c) == flags.WHICH = c.which /\ flags.LOG_FORMAT = c.log_format

\* C10: every invocation begins with flags.reset() and then
\* flags.set_from_args(config), and while the task of an invocation runs with
\* no other invocation in progress at any time since it began, the flags are
\* those of its own configuration.  (That interleaved invocations can run a
\* task under the other's flags is the reachable state C10_Witness.)
C10_FlagsOfOwnConfiguration ==
    \A t \in Threads :
        /\ (Active(t) /\ pc[t] \notin {"reset", "set"}) =>
              /\ Len(calls[t]) >= 2
              /\ calls[t][1] = "flags.reset"
              /\ calls[t][2] = "flags.set_from_args"
        /\ (pc[t] = "run" /\ ~overlap[t]) => FlagsAreOf(rconfig[t][1])

\* After serialized invocations of two different configurations have run
\* their tasks, two interleaved invocations: the task of one runs while the
\* flags are those of the other's configuration.
C10_Witness ==
    /\ Cardinality(served) >= 2
    /\ \E t, u \in Threads :
          /\ t # u
          /\ pc[t] = "run"
          /\ Active(u)
          /\ FlagsAreOf(rconfig[u][1])
          /\ ~FlagsAreOf(rconfig[t][1])

=============================================================================
